---- MODULE Spec2Model ----
(***************************************************************************)
(* A model of grunge's fractal noise modules (src/src/fractal.rs):         *)
(* PinkNoise and BillowNoise, their constructors, their public fields and  *)
(* generate_2d, plus the modifier wrappers (scalebias, clamp) that the     *)
(* tests chain around them.                                                *)
(*                                                                         *)
(* Arithmetic is exact.  A number is n/d * 2^e with n and d odd and        *)
(* coprime, so that persistence^29 * 0.25 stays representable.  The        *)
(* primitive snoise_2d is an uninterpreted function: a generated value is  *)
(* the formal sum of the weighted primitive applications the octave loop   *)
(* added up, term by term in evaluation order, plus a constant.            *)
(***************************************************************************)
EXTENDS Integers, Sequences, FiniteSets

VARIABLES gen, chain, pc, arg, out, loc

vars == <<gen, chain, pc, arg, out, loc>>

(***************************************************************************)
(* Bounds of the model.                                                    *)
(***************************************************************************)
MaxSeed == 1
MaxCoord == 1
OctaveSlack == 2
MaxDepth == 2

(***************************************************************************)
(* Exact numbers: [n, d, e] stands for n/d * 2^e.                          *)
(***************************************************************************)
AbsInt(i) == IF i < 0 THEN 0 - i ELSE i

RECURSIVE Gcd(_, _)
Gcd(a, b) == IF b = 0 THEN a ELSE Gcd(b, a % b)

RECURSIVE TwoExp(_)
TwoExp(i) == IF i % 2 = 0 THEN 1 + TwoExp(i \div 2) ELSE 0

RECURSIVE TwoPow(_)
TwoPow(k) == IF k = 0 THEN 1 ELSE 2 * TwoPow(k - 1)

Zero == [n |-> 0, d |-> 1, e |-> 0]

Norm(n, d, e) ==
    IF n = 0 THEN Zero
    ELSE LET kn == TwoExp(AbsInt(n))
             kd == TwoExp(d)
             on == n \div TwoPow(kn)
             od == d \div TwoPow(kd)
             g  == Gcd(AbsInt(on), od)
         IN  [n |-> on \div g, d |-> od \div g, e |-> e + kn - kd]

IntNum(i) == Norm(i, 1, 0)

Mul(a, b) == Norm(a.n * b.n, a.d * b.d, a.e + b.e)

Add(a, b) ==
    LET m == IF a.e < b.e THEN a.e ELSE b.e
    IN  Norm(a.n * TwoPow(a.e - m) * b.d + b.n * TwoPow(b.e - m) * a.d,
             a.d * b.d, m)

Sub(a, b) == Add(a, Mul(IntNum(-1), b))

RECURSIVE Pow(_, _)
Pow(a, k) == IF k = 0 THEN IntNum(1) ELSE Mul(Pow(a, k - 1), a)

One == IntNum(1)
Two == IntNum(2)
Three == IntNum(3)
MinusOne == IntNum(-1)
MinusTwo == IntNum(-2)
Half == Norm(1, 2, 0)
Fifth == Norm(1, 5, 0)

(***************************************************************************)
(* Formal sums: <<t1, ..., tn>> + const, where a term t stands for         *)
(* t.coef * N(t.x, t.y, t.seed) or, when t.abs, for                        *)
(* t.coef * |N(t.x, t.y, t.seed) + t.offset|.                              *)
(***************************************************************************)
EmptySum == [terms |-> <<>>, const |-> Zero]

ScaleSum(s, c) ==
    [terms |-> [i \in 1..Len(s.terms) |->
                    [s.terms[i] EXCEPT !.coef = Mul(s.terms[i].coef, c)]],
     const |-> Mul(s.const, c)]

\* s * c1 * c2 - k, coefficient by coefficient.
ScaleScaleSub(s, c1, c2, k) ==
    [terms |-> [i \in 1..Len(s.terms) |->
                    [s.terms[i] EXCEPT !.coef = Mul(Mul(s.terms[i].coef, c1), c2)]],
     const |-> Sub(Mul(Mul(s.const, c1), c2), k)]

AddTerm(s, t) == [s EXCEPT !.terms = Append(s.terms, t)]

(***************************************************************************)
(* Result<f32, &str>.                                                      *)
(***************************************************************************)
Ok(value) == [tag |-> "Ok", value |-> value]
Err(msg) == [tag |-> "Err", msg |-> msg]
NoOutcome == [tag |-> "None"]

TooFewOctaves == "The number of octaves must be two or greater."
TooManyOctaves == "The number of octaves must be less than 30."

(***************************************************************************)
(* The primitive, primitives::snoise_2d(sample, seed): an uninterpreted    *)
(* application.                                                            *)
(***************************************************************************)
snoise_2d(sample, seed) == [x |-> sample[1], y |-> sample[2], seed |-> seed]

PINKNOISE_SCALE == Norm(1, 4, 0)
BILLOWNOISE_SCALE == Norm(1, 4, 0)
MinOctaves == 1
MaxOctaves == 30

(***************************************************************************)
(* PinkNoise: the struct, new and Default.                                 *)
(***************************************************************************)
PinkNoise_default ==
    [kind |-> "Pink", seed |-> 0, frequency |-> One, persistence |-> Half,
     lacunarity |-> Two, octaves |-> 6]

PinkNoise_new(seed) == [PinkNoise_default EXCEPT !.seed = seed]

(***************************************************************************)
(* BillowNoise: the struct, new and Default.                               *)
(***************************************************************************)
BillowNoise_default ==
    [kind |-> "Billow", seed |-> 0, frequency |-> One, persistence |-> Half,
     lacunarity |-> Two, offset |-> Fifth, octaves |-> 6]

\* A constructor that drops its argument.
BillowNoise_new_noSeed(seed) == BillowNoise_default

BillowNoise_new(seed) == [BillowNoise_default EXCEPT !.seed = seed]

(***************************************************************************)
(* The locals of generate_2d: result, sample, persistence and the loop     *)
(* counter octave.  calls logs the snoise_2d evaluations made so far.      *)
(***************************************************************************)
NoLocals ==
    [result |-> EmptySum, sample |-> <<Zero, Zero>>, persistence |-> Zero,
     octave |-> 0, calls |-> <<>>]

Pass == [tag |-> "Pass"]

(***************************************************************************)
(* PinkNoise::generate_2d, piece by piece.                                 *)
(***************************************************************************)
\* The lower bound compared with < instead of <=.
PinkNoise_check_strict(self) ==
    IF self.octaves < MinOctaves THEN Err(TooFewOctaves)
    ELSE IF self.octaves > MaxOctaves THEN Err(TooManyOctaves)
    ELSE Pass

PinkNoise_check(self) ==
    IF self.octaves <= MinOctaves THEN Err(TooFewOctaves)
    ELSE IF self.octaves > MaxOctaves THEN Err(TooManyOctaves)
    ELSE Pass

\* The sample taken from the coordinate as it is.
PinkNoise_init_noFrequency(self, v) ==
    [result |-> EmptySum,
     sample |-> <<v[1], v[2]>>,
     persistence |-> One,
     octave |-> 0,
     calls |-> <<>>]

PinkNoise_init(self, v) ==
    [result |-> EmptySum,
     sample |-> <<Mul(v[1], self.frequency), Mul(v[2], self.frequency)>>,
     persistence |-> One,
     octave |-> 0,
     calls |-> <<>>]

\* The amplitude decayed before it is used, as in the struct's doc formula.
PinkNoise_body_decayFirst(self, l) ==
    LET noise == snoise_2d(l.sample, self.seed + l.octave)
    IN  [result |-> AddTerm(l.result,
                        [coef |-> Mul(l.persistence, self.persistence),
                         x |-> noise.x, y |-> noise.y,
                         seed |-> noise.seed, abs |-> FALSE, offset |-> Zero]),
         sample |-> <<Mul(l.sample[1], self.lacunarity),
                      Mul(l.sample[2], self.lacunarity)>>,
         persistence |-> Mul(l.persistence, self.persistence),
         octave |-> l.octave + 1,
         calls |-> Append(l.calls, noise)]

PinkNoise_body(self, l) ==
    LET noise == snoise_2d(l.sample, self.seed + l.octave)
    IN  [result |-> AddTerm(l.result,
                        [coef |-> l.persistence, x |-> noise.x, y |-> noise.y,
                         seed |-> noise.seed, abs |-> FALSE, offset |-> Zero]),
         sample |-> <<Mul(l.sample[1], self.lacunarity),
                      Mul(l.sample[2], self.lacunarity)>>,
         persistence |-> Mul(l.persistence, self.persistence),
         octave |-> l.octave + 1,
         calls |-> Append(l.calls, noise)]

\* The sum returned without the final scale.
PinkNoise_finish_unscaled(l) == Ok(l.result)

PinkNoise_finish(l) == Ok(ScaleSum(l.result, PINKNOISE_SCALE))

RECURSIVE PinkNoise_loop(_, _)
PinkNoise_loop(self, l) ==
    IF l.octave < self.octaves
    THEN PinkNoise_loop(self, PinkNoise_body(self, l))
    ELSE l

PinkNoise_generate_2d(self, v) ==
    IF PinkNoise_check(self) # Pass
    THEN [out |-> PinkNoise_check(self), calls |-> <<>>]
    ELSE LET l == PinkNoise_loop(self, PinkNoise_init(self, v))
         IN  [out |-> PinkNoise_finish(l), calls |-> l.calls]

(***************************************************************************)
(* BillowNoise::generate_2d, piece by piece.                               *)
(***************************************************************************)
BillowNoise_check(self) ==
    IF self.octaves <= MinOctaves THEN Err(TooFewOctaves)
    ELSE IF self.octaves > MaxOctaves THEN Err(TooManyOctaves)
    ELSE Pass

\* The loop counter started at 1.
BillowNoise_init_fromOne(self, v) ==
    [result |-> EmptySum,
     sample |-> <<Mul(v[1], self.frequency), Mul(v[2], self.frequency)>>,
     persistence |-> One,
     octave |-> 1,
     calls |-> <<>>]

BillowNoise_init(self, v) ==
    [result |-> EmptySum,
     sample |-> <<Mul(v[1], self.frequency), Mul(v[2], self.frequency)>>,
     persistence |-> One,
     octave |-> 0,
     calls |-> <<>>]

\* The absolute value taken of the noise alone, the offset left out.
BillowNoise_body_noOffset(self, l) ==
    LET noise == snoise_2d(l.sample, self.seed + l.octave)
    IN  [result |-> AddTerm(l.result,
                        [coef |-> l.persistence, x |-> noise.x, y |-> noise.y,
                         seed |-> noise.seed, abs |-> TRUE, offset |-> Zero]),
         sample |-> <<Mul(l.sample[1], self.lacunarity),
                      Mul(l.sample[2], self.lacunarity)>>,
         persistence |-> Mul(l.persistence, self.persistence),
         octave |-> l.octave + 1,
         calls |-> Append(l.calls, noise)]

BillowNoise_body(self, l) ==
    LET noise == snoise_2d(l.sample, self.seed + l.octave)
    IN  [result |-> AddTerm(l.result,
                        [coef |-> l.persistence, x |-> noise.x, y |-> noise.y,
                         seed |-> noise.seed, abs |-> TRUE,
                         offset |-> self.offset]),
         sample |-> <<Mul(l.sample[1], self.lacunarity),
                      Mul(l.sample[2], self.lacunarity)>>,
         persistence |-> Mul(l.persistence, self.persistence),
         octave |-> l.octave + 1,
         calls |-> Append(l.calls, noise)]

BillowNoise_finish(l) == Ok(ScaleScaleSub(l.result, BILLOWNOISE_SCALE, Two, One))

RECURSIVE BillowNoise_loop(_, _)
BillowNoise_loop(self, l) ==
    IF l.octave < self.octaves
    THEN BillowNoise_loop(self, BillowNoise_body(self, l))
    ELSE l

BillowNoise_generate_2d(self, v) ==
    IF BillowNoise_check(self) # Pass
    THEN [out |-> BillowNoise_check(self), calls |-> <<>>]
    ELSE LET l == BillowNoise_loop(self, BillowNoise_init(self, v))
         IN  [out |-> BillowNoise_finish(l), calls |-> l.calls]

(***************************************************************************)
(* NoiseModule::generate_2d, dispatched on the implementing type.          *)
(***************************************************************************)
generate_2d(self, v) ==
    IF self.kind = "Pink" THEN PinkNoise_generate_2d(self, v)
    ELSE BillowNoise_generate_2d(self, v)

check(self) ==
    IF self.kind = "Pink" THEN PinkNoise_check(self) ELSE BillowNoise_check(self)

init(self, v) ==
    IF self.kind = "Pink" THEN PinkNoise_init(self, v)
    ELSE BillowNoise_init(self, v)

body(self, l) ==
    IF self.kind = "Pink" THEN PinkNoise_body(self, l)
    ELSE BillowNoise_body(self, l)

finish(self, l) ==
    IF self.kind = "Pink" THEN PinkNoise_finish(l) ELSE BillowNoise_finish(l)

(***************************************************************************)
(* Modifiers: scalebias and clamp wrap a module and transform its success  *)
(* value; a chain lists the wrappers innermost first.  A clamped or        *)
(* rescaled value is kept as the application of the transform to the       *)
(* inner value.                                                            *)
(***************************************************************************)
ScaleBias(scale, bias) == [op |-> "scalebias", a |-> scale, b |-> bias]
Clamp(lower, upper) == [op |-> "clamp", a |-> lower, b |-> upper]

Transform(m, value) == [op |-> m.op, a |-> m.a, b |-> m.b, of |-> value]

\* A wrapper that transforms whatever the inner module returned.
Modifier_generate_2d_always(m, inner) ==
    IF inner.tag = "Err" THEN Ok(Transform(m, EmptySum))
    ELSE Ok(Transform(m, inner.value))

Modifier_generate_2d(m, inner) ==
    IF inner.tag = "Err" THEN inner ELSE Ok(Transform(m, inner.value))

RECURSIVE Chain_generate_2d(_, _, _)
Chain_generate_2d(c, self, v) ==
    IF c = <<>> THEN generate_2d(self, v).out
    ELSE Modifier_generate_2d(c[Len(c)],
             Chain_generate_2d(SubSeq(c, 1, Len(c) - 1), self, v))

(***************************************************************************)
(* The inputs the callers draw from.                                       *)
(***************************************************************************)
Seeds == 0..MaxSeed
Coords == {<<IntNum(x), IntNum(x - 1)>> : x \in 0..MaxCoord}
Origin == <<Zero, Zero>>
FrequencyVals == {One, Three}
PersistenceVals == {Half, MinusTwo}
LacunarityVals == {Two, Half}
OffsetVals == {Fifth, MinusOne}
OctaveVals == 0..(MaxOctaves + OctaveSlack)
Modifiers == {ScaleBias(Half, Half), Clamp(Zero, One)}

(***************************************************************************)
(* The state after construction: a caller holds a generator it has just    *)
(* built with new(seed); no call is in progress.                           *)
(***************************************************************************)
Init ==
    /\ gen \in {PinkNoise_new(s) : s \in Seeds} \cup {BillowNoise_new(s) : s \in Seeds}
    /\ chain = <<>>
    /\ pc = "idle"
    /\ arg = Origin
    /\ out = NoOutcome
    /\ loc = NoLocals

(***************************************************************************)
(* Construction.                                                           *)
(***************************************************************************)
NewPink(s) ==
    /\ pc = "idle"
    /\ gen' = PinkNoise_new(s)
    /\ chain' = <<>>
    /\ UNCHANGED <<pc, arg, out, loc>>

NewBillow(s) ==
    /\ pc = "idle"
    /\ gen' = BillowNoise_new(s)
    /\ chain' = <<>>
    /\ UNCHANGED <<pc, arg, out, loc>>

(***************************************************************************)
(* Direct assignment to the public fields by the owning caller, possible   *)
(* while the generator has not been moved into a wrapper.                  *)
(***************************************************************************)
SetSeed(s) ==
    /\ pc = "idle" /\ chain = <<>>
    /\ gen' = [gen EXCEPT !.seed = s]
    /\ UNCHANGED <<chain, pc, arg, out, loc>>

SetFrequency(f) ==
    /\ pc = "idle" /\ chain = <<>>
    /\ gen' = [gen EXCEPT !.frequency = f]
    /\ UNCHANGED <<chain, pc, arg, out, loc>>

SetPersistence(p) ==
    /\ pc = "idle" /\ chain = <<>>
    /\ gen' = [gen EXCEPT !.persistence = p]
    /\ UNCHANGED <<chain, pc, arg, out, loc>>

SetLacunarity(l) ==
    /\ pc = "idle" /\ chain = <<>>
    /\ gen' = [gen EXCEPT !.lacunarity = l]
    /\ UNCHANGED <<chain, pc, arg, out, loc>>

SetOctaves(n) ==
    /\ pc = "idle" /\ chain = <<>>
    /\ gen' = [gen EXCEPT !.octaves = n]
    /\ UNCHANGED <<chain, pc, arg, out, loc>>

SetOffset(o) ==
    /\ pc = "idle" /\ chain = <<>>
    /\ gen.kind = "Billow"
    /\ gen' = [gen EXCEPT !.offset = o]
    /\ UNCHANGED <<chain, pc, arg, out, loc>>

(***************************************************************************)
(* Modifiable: module.scalebias(a, b) and module.clamp(lo, hi) move the    *)
(* module into a new wrapper.                                              *)
(***************************************************************************)
Wrap(m) ==
    /\ pc = "idle"
    /\ Len(chain) < MaxDepth
    /\ chain' = Append(chain, m)
    /\ UNCHANGED <<gen, pc, arg, out, loc>>

(***************************************************************************)
(* A whole generate_2d call on the outermost module, and the caller        *)
(* letting go of the returned value.                                       *)
(***************************************************************************)
Generate(v) ==
    /\ pc = "idle"
    /\ pc' = "returned"
    /\ arg' = v
    /\ out' = Chain_generate_2d(chain, gen, v)
    /\ UNCHANGED <<gen, chain, loc>>

Drop ==
    /\ pc = "returned"
    /\ pc' = "idle"
    /\ arg' = Origin
    /\ out' = NoOutcome
    /\ loc' = NoLocals
    /\ UNCHANGED <<gen, chain>>

Assign ==
    \/ \E s \in Seeds : SetSeed(s)
    \/ \E f \in FrequencyVals : SetFrequency(f)
    \/ \E p \in PersistenceVals : SetPersistence(p)
    \/ \E l \in LacunarityVals : SetLacunarity(l)
    \/ \E n \in OctaveVals : SetOctaves(n)
    \/ \E o \in OffsetVals : SetOffset(o)

Construct ==
    \/ \E s \in Seeds : NewPink(s)
    \/ \E s \in Seeds : NewBillow(s)

Next ==
    \/ Construct
    \/ Assign
    \/ \E m \in Modifiers : Wrap(m)
    \/ \E v \in Coords : Generate(v)
    \/ Drop

Spec == Init /\ [][Next]_vars

(***************************************************************************)
(* The same call, statement by statement: the octave check, the            *)
(* initialisation of the locals, one loop iteration at a time, the final   *)
(* scaling.  The call runs to completion once it has started.              *)
(***************************************************************************)
Call(v) ==
    /\ pc = "idle" /\ chain = <<>>
    /\ arg' = v
    /\ IF check(gen) # Pass
       THEN /\ pc' = "returned"
            /\ out' = check(gen)
            /\ loc' = loc
       ELSE /\ pc' = "loop"
            /\ out' = out
            /\ loc' = init(gen, v)
    /\ UNCHANGED <<gen, chain>>

\* The decayed amplitude written to the field instead of the local.
Octave_writeBack ==
    /\ pc = "loop"
    /\ loc.octave < gen.octaves
    /\ loc' = body(gen, loc)
    /\ gen' = [gen EXCEPT !.persistence = Mul(loc.persistence, gen.persistence)]
    /\ UNCHANGED <<chain, pc, arg, out>>

Octave ==
    /\ pc = "loop"
    /\ loc.octave < gen.octaves
    /\ loc' = body(gen, loc)
    /\ UNCHANGED <<gen, chain, pc, arg, out>>

Return ==
    /\ pc = "loop"
    /\ ~(loc.octave < gen.octaves)
    /\ pc' = "returned"
    /\ out' = finish(gen, loc)
    /\ UNCHANGED <<gen, chain, arg, loc>>

StepNext ==
    \/ Construct
    \/ Assign
    \/ \E v \in Coords : Call(v)
    \/ Octave
    \/ Return
    \/ Drop

StepSpec == Init /\ [][StepNext]_vars

(***************************************************************************)
(* The statement-by-statement call under the scheduling the code has: it   *)
(* is single-threaded and synchronous, so a call that has started keeps    *)
(* taking its next step.  The caller varies octaves, the one field the     *)
(* control flow of the call reads.                                         *)
(***************************************************************************)
LiveNext ==
    \/ \E n \in OctaveVals : SetOctaves(n)
    \/ \E v \in Coords : Call(v)
    \/ Octave
    \/ Return
    \/ Drop

LiveSpec == Init /\ [][LiveNext]_vars /\ WF_vars(Octave) /\ WF_vars(Return)

(***************************************************************************)
(* What the claims speak of.                                               *)
(***************************************************************************)
Quarter == Norm(1, 4, 0)

Returned == pc = "returned" /\ chain = <<>>

\* persistence^(k-1) * |or not| N(v * frequency * lacunarity^(k-1), seed + k - 1)
OctaveTerm(g, v, k, weight, isAbs, off) ==
    [coef |-> weight,
     x |-> Mul(Mul(v[1], g.frequency), Pow(g.lacunarity, k - 1)),
     y |-> Mul(Mul(v[2], g.frequency), Pow(g.lacunarity, k - 1)),
     seed |-> g.seed + (k - 1),
     abs |-> isAbs,
     offset |-> off]

PinkClosedForm(g, v) ==
    [terms |-> [k \in 1..g.octaves |->
                    OctaveTerm(g, v, k, Mul(Quarter, Pow(g.persistence, k - 1)),
                               FALSE, Zero)],
     const |-> Zero]

BillowClosedForm(g, v) ==
    [terms |-> [k \in 1..g.octaves |->
                    OctaveTerm(g, v, k,
                               Mul(Mul(Pow(g.persistence, k - 1), Quarter), Two),
                               TRUE, g.offset)],
     const |-> MinusOne]

\* C1: generate_2d's outcome is decided by octaves alone: octaves <= 1 gives
\* the too-few error, octaves > 30 the too-many error, 2..30 a success value.
C1_OctavesDecideOutcome ==
    Returned =>
        IF gen.octaves <= 1 THEN out = Err(TooFewOctaves)
        ELSE IF gen.octaves > 30 THEN out = Err(TooManyOctaves)
        ELSE out.tag = "Ok"

C1_Witness ==
    /\ Returned
    /\ gen.kind = "Billow" /\ gen.octaves = 30 /\ out.tag = "Ok"
    /\ gen.seed = 1 /\ gen.frequency = Three /\ gen.persistence = MinusTwo
    /\ gen.lacunarity = Half /\ gen.offset = MinusOne

C3_BillowClosedForm ==
    (Returned /\ gen.kind = "Billow" /\ gen.octaves \in 2..30)
        => out = Ok(BillowClosedForm(gen, arg))

C3_Witness ==
    /\ Returned
    /\ gen.kind = "Billow" /\ gen.octaves = 30 /\ out.tag = "Ok"
    /\ gen.persistence = Half /\ gen.offset = Fifth /\ arg[1] = One
    /\ out.value.const = MinusOne
    /\ out.value.terms[30].offset = Fifth

HasDefaults(g) ==
    /\ g.frequency = One
    /\ g.persistence = Half
    /\ g.lacunarity = Two
    /\ g.octaves = 6
    /\ g.kind = "Billow" => g.offset = Fifth

\* C4: new(s) always succeeds, whatever the state of the generator it
\* replaces, and returns seed s with frequency 1.0, persistence 0.5,
\* lacunarity 2.0, octaves 6 (offset 0.2 for BillowNoise); an instance with
\* these fields evaluates successfully at every coordinate.
C4_NewGivesDefaults ==
    /\ [](pc = "idle" =>
            \A s \in Seeds : (ENABLED NewPink(s)) /\ (ENABLED NewBillow(s)))
    /\ [][/\ \A s \in Seeds :
                NewPink(s) =>
                    /\ gen'.kind = "Pink" /\ gen'.seed = s
                    /\ DOMAIN gen' =
                         {"kind", "seed", "frequency", "persistence",
                          "lacunarity", "octaves"}
                    /\ HasDefaults(gen')
          /\ \A s \in Seeds :
                NewBillow(s) =>
                    /\ gen'.kind = "Billow" /\ gen'.seed = s
                    /\ HasDefaults(gen')
          /\ (pc = "idle" /\ pc' = "returned" /\ chain = <<>> /\ HasDefaults(gen))
                => out'.tag = "Ok"]_vars

C4_Witness ==
    /\ Returned
    /\ gen = [kind |-> "Billow", seed |-> 1, frequency |-> One,
              persistence |-> Half, lacunarity |-> Two, offset |-> Fifth,
              octaves |-> 6]
    /\ out.tag = "Ok"
    /\ arg = <<One, Zero>>

\* C5: a chain of modifiers around a generator whose octaves is outside
\* 2..30 returns exactly the inner generator's error; when the inner
\* generator succeeds the outermost wrapper succeeds too.
C5_ErrorsPropagate ==
    pc = "returned" =>
        IF gen.octaves \in 2..30
        THEN out.tag = "Ok"
        ELSE out.tag = "Err" /\ out = generate_2d(gen, arg).out

C5_Witness ==
    /\ pc = "returned"
    /\ Len(chain) = 2 /\ chain[1].op = "scalebias" /\ chain[2].op = "clamp"
    /\ gen.octaves = 31
    /\ out = Err(TooManyOctaves)

\* The doc comment's M(x) = p N(f x) + p^2 N(f l x) + ... + p^n N(f l^(n-1) x),
\* and the returned sum, both without the seeds.
Unseeded(terms) ==
    [k \in 1..Len(terms) |-> [coef |-> terms[k].coef, x |-> terms[k].x, y |-> terms[k].y]]

DocFormula(g, v) ==
    [k \in 1..g.octaves |->
        [coef |-> Pow(g.persistence, k),
         x |-> Mul(Mul(v[1], g.frequency), Pow(g.lacunarity, k - 1)),
         y |-> Mul(Mul(v[2], g.frequency), Pow(g.lacunarity, k - 1))]]

C7_LessThanThirty ==
    Returned =>
        /\ out.tag = "Ok" => gen.octaves < 30
        /\ gen.octaves >= 30
             => out = Err("The number of octaves must be less than 30.")

\* C8: generate_2d at (x, y) with frequency c returns the same outcome as
\* generate_2d at (c*x, c*y) on a copy with frequency 1.
C8_FrequencyScalesInput ==
    Returned =>
        out = generate_2d([gen EXCEPT !.frequency = One],
                          <<Mul(gen.frequency, arg[1]),
                            Mul(gen.frequency, arg[2])>>).out

C8_Witness ==
    /\ Returned
    /\ gen.frequency = Three /\ arg = <<One, Zero>> /\ out.tag = "Ok"
    /\ out.value.terms[1].x = Three
    /\ gen.kind = "Billow" /\ gen.lacunarity = Half

\* C9: a generate_2d call, successful or failing, leaves every field of the
\* generator unchanged at each of its steps, and what it returns is a
\* function of the coordinate and the fields at the time of the call alone,
\* whatever calls and assignments came before.
C9_CallsAreIndependent ==
    [][/\ ((pc = "idle" /\ pc' # "idle") \/ pc = "loop") => gen' = gen
       /\ (pc # "returned" /\ pc' = "returned")
            => out' = generate_2d(gen', arg').out]_vars

C9_Witness ==
    /\ Returned
    /\ out.tag = "Ok" /\ gen.kind = "Pink"
    /\ gen.persistence = MinusTwo /\ gen.seed = 1 /\ gen.octaves = 7
    /\ loc.octave = 7 /\ arg = <<One, Zero>>

\* C10: every generate_2d call terminates; a successful call evaluates the
\* primitive exactly octaves times (2 to 30 times), for octave 0, 1, ...,
\* octaves-1 in this order with seed + octave as the seed; a failing call
\* evaluates it not at all.
C10_EvaluationsAndTermination ==
    /\ [](pc = "returned" =>
            IF out.tag = "Ok"
            THEN /\ Len(loc.calls) = gen.octaves
                 /\ Len(loc.calls) \in 2..30
                 /\ \A k \in 1..Len(loc.calls) :
                        loc.calls[k].seed = gen.seed + (k - 1)
            ELSE loc.calls = <<>>)
    /\ [](pc = "loop" => Len(loc.calls) = loc.octave /\ loc.octave <= gen.octaves)
    /\ [][pc = "loop" =>
            \/ pc' = "returned"
            \/ pc' = "loop" /\ loc'.octave = loc.octave + 1]_vars
    /\ (pc = "loop" ~> pc = "returned")

C10_Witness ==
    /\ Returned
    /\ out.tag = "Ok" /\ Len(loc.calls) = 30
    /\ gen.kind = "Billow" /\ gen.seed = 1
    /\ loc.calls[30].seed = 30

====
